---- MODULE Spec2Model ----
(***************************************************************************)
(* Model of recorder.py (speech-training-recorder): the Recorder object's  *)
(* capture buffer operations (read_audio, flush), its recording slots      *)
(* (startRecording, finishRecording, deleteFile) and its prompt selection  *)
(* (get_scripts_from_file, split_script).                                  *)
(*                                                                         *)
(* Two threads touch the buffer queue: the audio device's callback thread  *)
(* (the producer) and the Qt main thread, which runs one slot at a time.   *)
(* The slots are therefore modelled statement by statement wherever they   *)
(* touch the queue, and as one step where they only touch the file system. *)
(***************************************************************************)
EXTENDS Integers, Sequences, FiniteSets

\* ------------------------------------------------------------------ bounds
\* Chunks the producer pushes while the buffer operations are called directly.
MaxPush == 5
\* Chunks the producer pushes in one behaviour of the program.
MaxChunks == 5
\* Largest drop_last a direct caller of read_audio passes.
MaxDrop == 3
\* finishRecording calls in one behaviour (each reads the clock once).
MaxClock == 2
\* Prompt slots shown by the window.
NumSlots == 2

\* Lines in the prompts file.
MaxLines == 2
\* Characters in one line of the prompts file.
MaxLineLen == 3
\* Largest prompt count n passed to get_scripts_from_file.
MaxN == 2
\* Largest split_len passed to get_scripts_from_file and to split_script.
MaxSplit == 2
\* Characters in a prompt passed to split_script.
MaxPromptLen == 5

\* ------------------------------------------------------- program constants
\* finishRecording: self.read_audio(drop_last=3)
DropLast == 3

VARIABLES
    \* --- audio.Audio
    buffer_queue,   \* audio.buffer_queue: FIFO of chunks (byte sequences)
    active,         \* audio.stream is started
    \* --- the Qt main thread
    pc,             \* statement the main thread executes next
    caller,         \* who called flush / read_audio
    drop_last,      \* read_audio: argument
    blocks,         \* read_audio: local list
    size,           \* flush: local, and the value it returns
    ret,            \* value returned by the last read_audio
    data,           \* finishRecording: local
    \* --- window and file system
    scriptModel,    \* window: slot -> filename ('' is <<>>)
    cur,            \* window: index of the displayed slot
    files,          \* save_dir: set of [name, data, slot]; slot is history
    log,            \* recorder.tsv: sequence of records
    now,            \* clock ticks consumed by datetime.now()
    \* --- history (not program state)
    pushed,         \* number of chunks pushed so far
    callQueue,      \* buffer_queue when the running call began
    callPushed,     \* pushed when the running call began
    gets,           \* get_nowait calls made by the running call
    lastOp,         \* which operation returned last
    finished,       \* the finishRecording calls that completed, in order
    started,        \* a startRecording completed since the last finishRecording
    preroll,        \* pushed when the last startRecording was invoked
    failure,        \* how the slot that just ended failed, and the audio it held
    \* --- get_scripts_from_file
    corpus,         \* the lines of the prompts file, without their newlines
    arg_n,          \* argument n (None or a count)
    randomize,      \* argument randomize
    split_len,      \* argument split_len (None or a length)
    gpc,            \* statement get_scripts_from_file executes next
    n,              \* local n
    scripts,        \* local scripts
    selected,       \* history: the prompts after filter, before any split
    parts,          \* history: the list of segment lists, before sum(scripts, [])
    \* --- split_script
    ss_pc,          \* statement split_script executes next
    ss_script,      \* argument script
    ss_split_len,   \* argument split_len
    ss_scripts,     \* local scripts
    ss_n,           \* local n
    ss_startpos,    \* local startpos
    ss_i,           \* history: iterations of the loop begun so far
    broke,          \* history: the loop ended by its break
    \* --- main
    mpc,            \* statement main executes next
    save_dir_isdir,         \* os.path.isdir(save_dir)
    prompts_filename_isfile, \* os.path.isfile(prompts_filename)
    subsystems,     \* the subsystems initialized so far, in order
    exc             \* the exception that ended main, or "none"

bufVars == <<buffer_queue, active, pc, caller, drop_last, blocks, size, ret,
             pushed, callQueue, callPushed, gets, lastOp>>
sessVars == <<data, scriptModel, cur, files, log, now, finished,
              started, preroll, failure>>
scriptVars == <<corpus, arg_n, randomize, split_len, gpc, n, scripts,
                selected, parts>>
splitVars == <<ss_pc, ss_script, ss_split_len, ss_scripts, ss_n, ss_startpos,
               ss_i, broke>>
mainVars == <<mpc, save_dir_isdir, prompts_filename_isfile, subsystems, exc>>
vars == <<bufVars, sessVars, scriptVars, splitVars, mainVars>>

\* ----------------------------------------------------------------- helpers
Max(a, b) == IF a >= b THEN a ELSE b
Min(a, b) == IF a <= b THEN a ELSE b

\* b''.join(blocks)
RECURSIVE join(_)
join(bs) == IF bs = <<>> THEN <<>> ELSE Head(bs) \o join(Tail(bs))

\* Python's seq[:stop] for an integer stop (negative counts from the end).
SliceTo(s, stop) ==
    LET e == IF stop < 0 THEN Max(0, Len(s) + stop) ELSE Min(stop, Len(s))
    IN  SubSeq(s, 1, e)

\* The non-empty elements of a sequence of chunks, in order.
RECURSIVE NonEmpty(_)
NonEmpty(bs) ==
    IF bs = <<>> THEN <<>>
    ELSE IF Head(bs) = <<>> THEN NonEmpty(Tail(bs))
    ELSE <<Head(bs)>> \o NonEmpty(Tail(bs))

Slots == 1..NumSlots

\* ---------------------------------------------------------------- producer
\* The stream callback: buffer_queue.put(in_data). The k-th chunk carries the
\* byte k, or is a zero-length chunk.
Push(limit) ==
    /\ active
    /\ pushed < limit
    /\ \E block \in {<<>>, <<pushed + 1>>} :
         buffer_queue' = Append(buffer_queue, block)
    /\ pushed' = pushed + 1
    /\ UNCHANGED <<active, pc, caller, drop_last, blocks, size, ret,
                   callQueue, callPushed, gets, lastOp>>
    /\ UNCHANGED sessVars
    /\ UNCHANGED <<scriptVars, splitVars, mainVars>>

Callback == Push(MaxChunks)

CallbackDirect == Push(MaxPush)

\* ------------------------------------------------------------------- flush
\* Where flush and read_audio return to.
ReturnTo ==
    IF caller = "startRecording" THEN "sr_start_stream"
    ELSE IF caller = "finishRecording" THEN "fr_persist"
    ELSE "returned"

\* size = self.audio.buffer_queue.qsize()
flush_qsize ==
    /\ pc = "fl_qsize"
    /\ size' = Len(buffer_queue)
    /\ pc' = "fl_empty"
    /\ UNCHANGED <<buffer_queue, active, caller, drop_last, blocks, ret,
                   pushed, callQueue, callPushed, gets, lastOp>>
    /\ UNCHANGED sessVars
    /\ UNCHANGED <<scriptVars, splitVars, mainVars>>

\* while not self.audio.buffer_queue.empty():
flush_empty ==
    /\ pc = "fl_empty"
    /\ pc' = IF buffer_queue = <<>> THEN "fl_return" ELSE "fl_get"
    /\ UNCHANGED <<buffer_queue, active, caller, drop_last, blocks, size, ret,
                   pushed, callQueue, callPushed, gets, lastOp>>
    /\ UNCHANGED sessVars
    /\ UNCHANGED <<scriptVars, splitVars, mainVars>>

\* self.audio.buffer_queue.get_nowait()
flush_get ==
    /\ pc = "fl_get"
    /\ buffer_queue' = Tail(buffer_queue)
    /\ gets' = gets + 1
    /\ pc' = "fl_empty"
    /\ UNCHANGED <<active, caller, drop_last, blocks, size, ret,
                   pushed, callQueue, callPushed, lastOp>>
    /\ UNCHANGED sessVars
    /\ UNCHANGED <<scriptVars, splitVars, mainVars>>

\* return size
flush_return ==
    /\ pc = "fl_return"
    /\ lastOp' = "flush"
    /\ pc' = ReturnTo
    /\ UNCHANGED <<buffer_queue, active, caller, drop_last, blocks, size, ret,
                   pushed, callQueue, callPushed, gets>>
    /\ UNCHANGED sessVars
    /\ UNCHANGED <<scriptVars, splitVars, mainVars>>

\* -------------------------------------------------------------- read_audio
\* blocks = []
read_audio_init ==
    /\ pc = "ra_init"
    /\ blocks' = <<>>
    /\ pc' = "ra_empty"
    /\ UNCHANGED <<buffer_queue, active, caller, drop_last, size, ret,
                   pushed, callQueue, callPushed, gets, lastOp>>
    /\ UNCHANGED sessVars
    /\ UNCHANGED <<scriptVars, splitVars, mainVars>>

\* while not self.audio.buffer_queue.empty():
read_audio_empty ==
    /\ pc = "ra_empty"
    /\ pc' = IF buffer_queue = <<>> THEN "ra_return" ELSE "ra_get"
    /\ UNCHANGED <<buffer_queue, active, caller, drop_last, blocks, size, ret,
                   pushed, callQueue, callPushed, gets, lastOp>>
    /\ UNCHANGED sessVars
    /\ UNCHANGED <<scriptVars, splitVars, mainVars>>

\* An append without the test of the block: blocks.append(block).
KeepBlockAlways(bs, block) == Append(bs, block)

\* if block: blocks.append(block)
KeepBlock(bs, block) == IF block /= <<>> THEN Append(bs, block) ELSE bs

\* block = self.audio.buffer_queue.get_nowait(); if block: blocks.append(block)
read_audio_get ==
    /\ pc = "ra_get"
    /\ buffer_queue' = Tail(buffer_queue)
    /\ blocks' = KeepBlock(blocks, Head(buffer_queue))
    /\ gets' = gets + 1
    /\ pc' = "ra_empty"
    /\ UNCHANGED <<active, caller, drop_last, size, ret,
                   pushed, callQueue, callPushed, lastOp>>
    /\ UNCHANGED sessVars
    /\ UNCHANGED <<scriptVars, splitVars, mainVars>>

\* A drop without the test of drop_last: blocks[:-0] is the empty list.
DropTailUnguarded(bs, k) == SliceTo(bs, 0 - k)

\* if drop_last: blocks = blocks[:-drop_last]
DropTail(bs, k) == IF k /= 0 THEN SliceTo(bs, 0 - k) ELSE bs

\* if drop_last: blocks = blocks[:-drop_last]; return b''.join(blocks)
read_audio_return ==
    /\ pc = "ra_return"
    /\ ret' = join(DropTail(blocks, drop_last))
    /\ blocks' = <<>>
    /\ data' = IF caller = "finishRecording" THEN ret' ELSE data
    /\ lastOp' = "read_audio"
    /\ pc' = ReturnTo
    /\ UNCHANGED <<buffer_queue, active, caller, drop_last, size,
                   pushed, callQueue, callPushed, gets>>
    /\ UNCHANGED <<scriptModel, cur, files, log, now, finished,
                   started, preroll, failure>>
    /\ UNCHANGED <<scriptVars, splitVars, mainVars>>

\* ------------------------------------------- direct calls of the buffer API
\* A caller invokes read_audio(drop_last=d) on the Qt main thread.
CallReadAudio ==
    /\ pc = "idle"
    /\ \E d \in 0..MaxDrop : drop_last' = d
    /\ caller' = "api"
    /\ callQueue' = buffer_queue
    /\ callPushed' = pushed
    /\ gets' = 0
    /\ pc' = "ra_init"
    /\ UNCHANGED <<buffer_queue, active, blocks, size, ret, pushed, lastOp>>
    /\ UNCHANGED sessVars
    /\ UNCHANGED <<scriptVars, splitVars, mainVars>>

\* A caller invokes flush() on the Qt main thread.
CallFlush ==
    /\ pc = "idle"
    /\ caller' = "api"
    /\ callQueue' = buffer_queue
    /\ callPushed' = pushed
    /\ gets' = 0
    /\ pc' = "fl_qsize"
    /\ UNCHANGED <<buffer_queue, active, drop_last, blocks, size, ret, pushed,
                   lastOp>>
    /\ UNCHANGED sessVars
    /\ UNCHANGED <<scriptVars, splitVars, mainVars>>

\* The caller has taken the returned value.
Returned ==
    /\ pc = "returned"
    /\ pc' = "idle"
    /\ drop_last' = 0
    /\ size' = 0
    /\ ret' = <<>>
    /\ callQueue' = <<>>
    /\ callPushed' = 0
    /\ gets' = 0
    /\ lastOp' = "none"
    /\ UNCHANGED <<buffer_queue, active, caller, blocks, pushed>>
    /\ UNCHANGED sessVars
    /\ UNCHANGED <<scriptVars, splitVars, mainVars>>

\* ------------------------------------------------------ window, file system
\* Characters that str.strip() removes and that \s matches.
Whitespace == {" ", "\t"}

\* str.strip()
RECURSIVE lstrip(_)
lstrip(s) ==
    IF s /= <<>> /\ Head(s) \in Whitespace THEN lstrip(Tail(s)) ELSE s

RECURSIVE rstrip(_)
rstrip(s) ==
    IF s /= <<>> /\ s[Len(s)] \in Whitespace
    THEN rstrip(SubSeq(s, 1, Len(s) - 1)) ELSE s

strip(s) == rstrip(lstrip(s))

\* sanitize_script: return script.strip() (the statements after it never run)
sanitize_script(script) == strip(script)

\* window.property('scriptFilename'): the displayed slot's filename
scriptFilename == scriptModel[cur]

\* window.property('scriptText'): the displayed slot's prompt, here a blank
\* followed by as many letters as the slot's index
scriptText == <<" ">> \o [i \in 1..cur |-> "a"]

\* window.property('promptsName')
promptsName == "prompts"

\* os.path.isfile
Exists(name) == \E f \in files : f.name = name

\* os.remove(filename), when it does not raise
os_remove(fs, name) == {f \in fs : f.name /= name}

\* os.remove(filename) raises: the file is missing, or the system refuses
RemoveRaises(name, fault) == ~Exists(name) \/ fault = "remove"

\* audio.write_wav(filename, data): creates or replaces the whole file
write_wav(fs, name, d) ==
    os_remove(fs, name) \cup {[name |-> name, data |-> d, slot |-> cur]}

\* A timestamp too coarse to tell two recordings apart: one name for all.
Filename_coarse(t) == <<0>>

\* "recorder_" + now.strftime("%Y-%m-%d_%H-%M-%S_%f") + ".wav" under saveDir:
\* a name that is never empty and differs for different clock readings
Filename(t) == <<t>>

\* A log opened with "w" instead of "a": the record replaces the log.
TruncateAndWrite(lg, record) == <<record>>

\* open(recorder.tsv, "a"); xsvfile.write(record + '\n')
AppendRecord(lg, record) == Append(lg, record)

\* '\t'.join([filename, '0', promptsName, '', sanitize_script(scriptText)])
Record(filename) ==
    <<filename, "0", promptsName, "", sanitize_script(scriptText)>>

\* A finishRecording that leaves the slot's previous file in place.
DeletePreviousSkipped(fs, old) == fs

\* if scriptFilename: self.deleteFile(scriptFilename)   (the os.remove part)
DeletePrevious(fs, old) == IF old /= <<>> THEN os_remove(fs, old) ELSE fs

\* No slot has just failed.
NoFailure == [kind |-> "none", drained |-> <<>>]

\* The main thread leaves a slot: its locals are gone.
LocalsGone ==
    /\ drop_last' = 0
    /\ size' = 0
    /\ callQueue' = <<>>
    /\ callPushed' = 0
    /\ gets' = 0
    /\ lastOp' = "none"
    /\ data' = <<>>
    /\ ret' = <<>>
    /\ caller' = "api"

\* ---------------------------------------------------------- startRecording
\* A startRecording that starts the stream without flushing the queue.
startRecording_no_flush ==
    /\ pc = "idle"
    /\ caller' = "startRecording"
    /\ callQueue' = buffer_queue
    /\ callPushed' = pushed
    /\ gets' = 0
    /\ pc' = "sr_start_stream"
    /\ preroll' = pushed
    /\ failure' = NoFailure
    /\ UNCHANGED <<buffer_queue, active, drop_last, blocks, size, ret, pushed,
                   lastOp>>
    /\ UNCHANGED <<data, scriptModel, cur, files, log, now, finished,
                   started>>
    /\ UNCHANGED <<scriptVars, splitVars, mainVars>>

\* size = self.flush()   (the call)
startRecording ==
    /\ pc = "idle"
    /\ caller' = "startRecording"
    /\ callQueue' = buffer_queue
    /\ callPushed' = pushed
    /\ gets' = 0
    /\ pc' = "fl_qsize"
    /\ preroll' = pushed
    /\ failure' = NoFailure
    /\ UNCHANGED <<buffer_queue, active, drop_last, blocks, size, ret, pushed,
                   lastOp>>
    /\ UNCHANGED <<data, scriptModel, cur, files, log, now, finished,
                   started>>
    /\ UNCHANGED <<scriptVars, splitVars, mainVars>>

\* self.audio.stream.start_stream()
startRecording_start_stream ==
    /\ pc = "sr_start_stream"
    /\ active' = TRUE
    /\ started' = TRUE
    /\ pc' = "idle"
    /\ LocalsGone
    /\ UNCHANGED <<buffer_queue, blocks, pushed>>
    /\ UNCHANGED <<scriptModel, cur, files, log, now, finished,
                   preroll, failure>>
    /\ UNCHANGED <<scriptVars, splitVars, mainVars>>

\* --------------------------------------------------------- finishRecording
\* A finishRecording that calls read_audio with the stream still running.
finishRecordingNoStop ==
    /\ pc = "idle"
    /\ now < MaxClock
    /\ caller' = "finishRecording"
    /\ drop_last' = DropLast
    /\ callQueue' = buffer_queue
    /\ callPushed' = pushed
    /\ gets' = 0
    /\ pc' = "ra_init"
    /\ failure' = NoFailure
    /\ UNCHANGED <<buffer_queue, active, blocks, size, ret, pushed, lastOp>>
    /\ UNCHANGED <<data, scriptModel, cur, files, log, now, finished,
                   started, preroll>>
    /\ UNCHANGED <<scriptVars, splitVars, mainVars>>

\* self.audio.stream.stop_stream(); data = self.read_audio(drop_last=3)
\* (the call)
finishRecording ==
    /\ pc = "idle"
    /\ now < MaxClock
    /\ active' = FALSE
    /\ caller' = "finishRecording"
    /\ drop_last' = DropLast
    /\ callQueue' = buffer_queue
    /\ callPushed' = pushed
    /\ gets' = 0
    /\ pc' = "ra_init"
    /\ failure' = NoFailure
    /\ UNCHANGED <<buffer_queue, blocks, size, ret, pushed, lastOp>>
    /\ UNCHANGED <<data, scriptModel, cur, files, log, now, finished,
                   started, preroll>>
    /\ UNCHANGED <<scriptVars, splitVars, mainVars>>

\* What can go wrong in the persist step.
Faults == {"none", "remove", "write_wav", "open_log"}

\* if scriptFilename: deleteFile(scriptFilename); filename = ...;
\* setProperty('scriptFilename', filename); write_wav(filename, data);
\* append the record to recorder.tsv. An exception ends the slot there.
finishRecording_persist ==
    /\ pc = "fr_persist"
    /\ \E fault \in Faults :
         LET old      == scriptFilename
             filename == Filename(now + 1)
             deleted  == DeletePrevious(files, old)
         IN  /\ (fault = "remove") => (old /= <<>>)
             /\ IF old /= <<>> /\ RemoveRaises(old, fault)
                THEN /\ failure' = [kind |-> "remove", drained |-> data]
                     /\ UNCHANGED <<scriptModel, files, log, finished>>
                ELSE IF fault = "write_wav"
                THEN /\ failure' = [kind |-> "write_wav", drained |-> data]
                     /\ scriptModel' = [scriptModel EXCEPT ![cur] = filename]
                     /\ files' = deleted
                     /\ UNCHANGED <<log, finished>>
                ELSE IF fault = "open_log"
                THEN /\ failure' = [kind |-> "open_log", drained |-> data]
                     /\ scriptModel' = [scriptModel EXCEPT ![cur] = filename]
                     /\ files' = write_wav(deleted, filename, data)
                     /\ UNCHANGED <<log, finished>>
                ELSE /\ failure' = NoFailure
                     /\ scriptModel' = [scriptModel EXCEPT ![cur] = filename]
                     /\ files' = write_wav(deleted, filename, data)
                     /\ log' = AppendRecord(log, Record(filename))
                     /\ finished' = Append(finished,
                            [name |-> filename, slot |-> cur,
                             started |-> started])
    /\ now' = now + 1
    /\ started' = FALSE
    /\ preroll' = 0
    /\ pc' = "idle"
    /\ LocalsGone
    /\ UNCHANGED <<buffer_queue, active, blocks, pushed, cur>>
    /\ UNCHANGED <<scriptVars, splitVars, mainVars>>

\* -------------------------------------------------------------- deleteFile
\* The window's delete button: recorder.deleteFile(scriptFilename).
\* os.remove(filename); self.window.setProperty('scriptFilename', '')
deleteFile ==
    /\ pc = "idle"
    /\ \E filename \in {scriptFilename} \ {<<>>}, fault \in {"none", "remove"} :
         IF RemoveRaises(filename, fault)
         THEN UNCHANGED <<files, scriptModel>>
         ELSE /\ files' = os_remove(files, filename)
              /\ scriptModel' = [scriptModel EXCEPT ![cur] = <<>>]
    /\ failure' = NoFailure
    /\ UNCHANGED bufVars
    /\ UNCHANGED <<data, cur, log, now, finished, started, preroll>>
    /\ UNCHANGED <<scriptVars, splitVars, mainVars>>

\* The window displays another prompt slot.
SelectSlot ==
    /\ pc = "idle"
    /\ \E s \in Slots \ {cur} : cur' = s
    /\ failure' = NoFailure
    /\ UNCHANGED bufVars
    /\ UNCHANGED <<data, scriptModel, files, log, now, finished,
                   started, preroll>>
    /\ UNCHANGED <<scriptVars, splitVars, mainVars>>

\* ------------------------------------------------------------ split_script
\* Python's None for n and split_len; the counts and lengths passed are >= 0.
None == 0 - 1

\* Python's s[a:b] for 0 <= a and 0 <= b
Slice(s, a, b) == SubSeq(s, a + 1, Min(b, Len(s)))

\* The iteration count rounded down: len(script) // split_len.
FloorDiv(a, b) == a \div b

\* math.ceil(a / b) for a >= 0, b >= 1
CeilDiv(a, b) == (a + b - 1) \div b

\* A search that forgets its pos argument: regex.search(script).
search_from_start(script, pos) ==
    LET hits == {j \in 0..(Len(script) - 1) : script[j + 1] \in Whitespace}
    IN  IF hits = {} THEN None
        ELSE CHOOSE j \in hits : \A k \in hits : j <= k

\* regex.search(script, pos).start() for the pattern \s+: the 0-based index of
\* the first whitespace character at or after pos, or None
search(script, pos) ==
    LET hits == {j \in pos..(Len(script) - 1) : script[j + 1] \in Whitespace}
    IN  IF hits = {} THEN None
        ELSE CHOOSE j \in hits : \A k \in hits : j <= k

RECURSIVE split_loop(_, _, _, _, _, _)
\* for i in range(n): match = regex.search(script, pos=startpos+split_len);
\* endpos = match.start() if match else None;
\* scripts.append(script[startpos:endpos].strip());
\* if endpos is None: break; startpos = endpos
split_loop(script, len, i, count, startpos, acc) ==
    IF i >= count
    THEN [scripts |-> acc, iterations |-> i, startpos |-> startpos,
          broke |-> FALSE]
    ELSE LET endpos == search(script, startpos + len)
             stop   == IF endpos = None THEN Len(script) ELSE endpos
             seg    == strip(Slice(script, startpos, stop))
         IN  IF endpos = None
             THEN [scripts |-> Append(acc, seg), iterations |-> i + 1,
                   startpos |-> startpos, broke |-> TRUE]
             ELSE split_loop(script, len, i + 1, count, endpos,
                             Append(acc, seg))

\* n = math.ceil(len(script) / split_len); startpos = 0; the loop
split_run(script, len) ==
    split_loop(script, len, 0, CeilDiv(Len(script), len), 0, <<>>)

\* split_script(script, split_len)
split_script(script, len) == split_run(script, len).scripts

\* A segment that starts one character late: script[startpos+1:endpos].
split_segment_late(text, from, endpos) ==
    strip(Slice(text, from + 1, IF endpos = None THEN Len(text) ELSE endpos))

\* script[startpos:endpos].strip(), endpos None or an index
split_segment(text, from, endpos) ==
    strip(Slice(text, from, IF endpos = None THEN Len(text) ELSE endpos))

\* scripts = []; n = math.ceil(len(script) / split_len); startpos = 0
split_script_call ==
    /\ ss_pc = "call"
    /\ ss_scripts' = <<>>
    /\ ss_n' = CeilDiv(Len(ss_script), ss_split_len)
    /\ ss_startpos' = 0
    /\ ss_pc' = "for"
    /\ UNCHANGED <<ss_script, ss_split_len, ss_i, broke>>
    /\ UNCHANGED <<bufVars, sessVars, scriptVars, mainVars>>

\* One iteration of: for i in range(n):
\*     match = regex.search(script, pos=startpos+split_len)
\*     endpos = match.start() if match else None
\*     scripts.append(script[startpos:endpos].strip())
\*     if endpos is None: break
\*     startpos = endpos
split_script_for ==
    /\ ss_pc = "for"
    /\ ss_i < ss_n
    /\ LET endpos == search(ss_script, ss_startpos + ss_split_len)
           seg    == split_segment(ss_script, ss_startpos, endpos)
       IN  /\ ss_scripts' = Append(ss_scripts, seg)
           /\ IF endpos = None
              THEN /\ broke' = TRUE
                   /\ ss_pc' = "return"
                   /\ UNCHANGED ss_startpos
              ELSE /\ ss_startpos' = endpos
                   /\ UNCHANGED <<broke, ss_pc>>
    /\ ss_i' = ss_i + 1
    /\ UNCHANGED <<ss_script, ss_split_len, ss_n>>
    /\ UNCHANGED <<bufVars, sessVars, scriptVars, mainVars>>

\* range(n) is exhausted: the loop ends without a break.
split_script_for_end ==
    /\ ss_pc = "for"
    /\ ss_i >= ss_n
    /\ ss_pc' = "return"
    /\ UNCHANGED <<ss_script, ss_split_len, ss_scripts, ss_n, ss_startpos, ss_i,
                   broke>>
    /\ UNCHANGED <<bufVars, sessVars, scriptVars, mainVars>>

\* return scripts
split_script_return ==
    /\ ss_pc = "return"
    /\ ss_pc' = "done"
    /\ UNCHANGED <<ss_script, ss_split_len, ss_scripts, ss_n, ss_startpos, ss_i,
                   broke>>
    /\ UNCHANGED <<bufVars, sessVars, scriptVars, mainVars>>

\* --------------------------------------------------- get_scripts_from_file
Letters == {"a", "b", "c", "d", "e", "f", "g", "h", "i", "j", "k", "l", "m",
            "n", "o", "p", "q", "r", "s", "t", "u", "v", "w", "x", "y", "z"}
Digits == {"0", "1", "2", "3", "4", "5", "6", "7", "8", "9"}
\* \w
WordChars == Letters \cup Digits \cup {"_"}

\* re.sub(r'^\w+ "(.*)"$', r'\1', script, count=1)
arctic(script) ==
    LET L  == Len(script)
        ks == {k \in 1..L :
                 /\ \A i \in 1..k : script[i] \in WordChars
                 /\ L >= k + 3
                 /\ script[k + 1] = " "
                 /\ script[k + 2] = "\""
                 /\ script[L] = "\""}
    IN  IF ks = {} THEN script
        ELSE LET k == CHOOSE k \in ks : TRUE IN SubSeq(script, k + 3, L - 1)

\* A tag pattern without the character after the s: r'^(.*) \(s\d+\)$'.
timit_digits(script) ==
    LET L  == Len(script)
        ps == {p \in 0..L :
                 /\ L >= p + 5
                 /\ script[p + 1] = " "
                 /\ script[p + 2] = "("
                 /\ script[p + 3] = "s"
                 /\ \A i \in (p + 4)..(L - 1) : script[i] \in Digits
                 /\ script[L] = ")"}
    IN  IF ps = {} THEN script
        ELSE LET p == CHOOSE p \in ps : \A q \in ps : q <= p
             IN  SubSeq(script, 1, p)

\* re.sub(r'^(.*) \(s.\d+\)$', r'\1', script, count=1)
timit(script) ==
    LET L  == Len(script)
        ps == {p \in 0..L :
                 /\ L >= p + 6
                 /\ script[p + 1] = " "
                 /\ script[p + 2] = "("
                 /\ script[p + 3] = "s"
                 /\ \A i \in (p + 5)..(L - 1) : script[i] \in Digits
                 /\ script[L] = ")"}
    IN  IF ps = {} THEN script
        ELSE LET p == CHOOSE p \in ps : \A q \in ps : q <= p
             IN  SubSeq(script, 1, p)

\* filter(script): for pat in patterns: script = re.sub(pat, r'\1', script)
filter(script) == timit(arctic(script))

\* sum(scripts, [])
RECURSIVE sum(_)
sum(lists) == IF lists = <<>> THEN <<>> ELSE Head(lists) \o sum(Tail(lists))

\* [line.strip() for line in file if not line.startswith(';')]
RECURSIVE load(_)
load(lines) ==
    IF lines = <<>> THEN <<>>
    ELSE IF Head(lines) /= <<>> /\ Head(Head(lines)) = ";"
    THEN load(Tail(lines))
    ELSE <<strip(Head(lines))>> \o load(Tail(lines))

\* with open(filename) as file: scripts = [...]; if n is None: n = len(scripts)
get_scripts_load ==
    /\ gpc = "load"
    /\ scripts' = load(corpus)
    /\ n' = IF arg_n = None THEN Len(scripts') ELSE arg_n
    /\ gpc' = "select"
    /\ UNCHANGED <<corpus, arg_n, randomize, split_len, selected, parts>>
    /\ UNCHANGED <<bufVars, sessVars, splitVars, mainVars>>

\* All orders of the elements of a sequence.
Shuffles(seq) ==
    {[i \in 1..Len(seq) |-> seq[f[i]]] :
        f \in {g \in [1..Len(seq) -> 1..Len(seq)] :
                 \A i, j \in 1..Len(seq) : g[i] = g[j] => i = j}}

\* A selection without replacement: random.shuffle(scripts); scripts[:n].
get_scripts_select_shuffle ==
    /\ gpc = "select"
    /\ IF randomize
       THEN \E shuffled \in Shuffles(scripts) : scripts' = SliceTo(shuffled, n)
       ELSE scripts' = SliceTo(scripts, n)
    /\ gpc' = "filter"
    /\ UNCHANGED <<corpus, arg_n, randomize, split_len, n, selected, parts>>
    /\ UNCHANGED <<bufVars, sessVars, splitVars, mainVars>>

\* if randomize: scripts = [random.choice(scripts) for _ in range(n)]
\* scripts = scripts[:n]
\* random.choice raises IndexError on an empty list.
get_scripts_select ==
    /\ gpc = "select"
    /\ IF randomize
       THEN IF n > 0 /\ scripts = <<>>
            THEN /\ gpc' = "raised"
                 /\ UNCHANGED scripts
            ELSE /\ \E pick \in [1..n -> 1..Len(scripts)] :
                      scripts' = SliceTo([i \in 1..n |-> scripts[pick[i]]], n)
                 /\ gpc' = "filter"
       ELSE /\ scripts' = SliceTo(scripts, n)
            /\ gpc' = "filter"
    /\ UNCHANGED <<corpus, arg_n, randomize, split_len, n, selected, parts>>
    /\ UNCHANGED <<bufVars, sessVars, splitVars, mainVars>>

\* scripts = [filter(script) for script in scripts]
get_scripts_filter ==
    /\ gpc = "filter"
    /\ scripts' = [i \in 1..Len(scripts) |-> filter(scripts[i])]
    /\ selected' = scripts'
    /\ gpc' = "split"
    /\ UNCHANGED <<corpus, arg_n, randomize, split_len, n, parts>>
    /\ UNCHANGED <<bufVars, sessVars, splitVars, mainVars>>

\* if split_len is not None:
\*     scripts = [self.split_script(script, split_len) for script in scripts]
\*     scripts = sum(scripts, [])
get_scripts_split ==
    /\ gpc = "split"
    /\ IF split_len /= None
       THEN /\ parts' = [i \in 1..Len(scripts) |->
                            split_script(scripts[i], split_len)]
            /\ scripts' = sum(parts')
       ELSE UNCHANGED <<scripts, parts>>
    /\ gpc' = "return"
    /\ UNCHANGED <<corpus, arg_n, randomize, split_len, n, selected>>
    /\ UNCHANGED <<bufVars, sessVars, splitVars, mainVars>>

\* scripts[:n]
ReturnFirst(list, count) == SliceTo(list, count)

\* return scripts[:n]
get_scripts_return ==
    /\ gpc = "return"
    /\ scripts' = ReturnFirst(scripts, n)
    /\ gpc' = "done"
    /\ UNCHANGED <<corpus, arg_n, randomize, split_len, n, selected, parts>>
    /\ UNCHANGED <<bufVars, sessVars, splitVars, mainVars>>

\* -------------------------------------------------------------------- main
MainFrame == UNCHANGED <<save_dir_isdir, prompts_filename_isfile>>

\* app = QGuiApplication(sys.argv)
main_QGuiApplication ==
    /\ mpc = "QGuiApplication"
    /\ subsystems' = Append(subsystems, "QGuiApplication")
    /\ mpc' = "QQmlApplicationEngine"
    /\ MainFrame
    /\ UNCHANGED exc
    /\ UNCHANGED <<bufVars, sessVars, scriptVars, splitVars>>

\* engine = QQmlApplicationEngine(); engine.addImportPath(current_path)
main_QQmlApplicationEngine ==
    /\ mpc = "QQmlApplicationEngine"
    /\ subsystems' = Append(subsystems, "QQmlApplicationEngine")
    /\ mpc' = "isdir"
    /\ MainFrame
    /\ UNCHANGED exc
    /\ UNCHANGED <<bufVars, sessVars, scriptVars, splitVars>>

\* recorder = Recorder(...): if not os.path.isdir(save_dir): raise Exception
Recorder_isdir ==
    /\ mpc = "isdir"
    /\ IF save_dir_isdir
       THEN mpc' = "isfile" /\ UNCHANGED exc
       ELSE mpc' = "raised" /\ exc' = "save_dir"
    /\ MainFrame
    /\ UNCHANGED subsystems
    /\ UNCHANGED <<bufVars, sessVars, scriptVars, splitVars>>

\* if not os.path.isfile(prompts_filename): raise Exception
Recorder_isfile ==
    /\ mpc = "isfile"
    /\ IF prompts_filename_isfile
       THEN mpc' = "Audio" /\ UNCHANGED exc
       ELSE mpc' = "raised" /\ exc' = "prompts_filename"
    /\ MainFrame
    /\ UNCHANGED subsystems
    /\ UNCHANGED <<bufVars, sessVars, scriptVars, splitVars>>

\* self.audio = audio.Audio()
Recorder_audio ==
    /\ mpc = "Audio"
    /\ subsystems' = Append(subsystems, "Audio")
    /\ mpc' = "load"
    /\ MainFrame
    /\ UNCHANGED exc
    /\ UNCHANGED <<bufVars, sessVars, scriptVars, splitVars>>

\* engine.load(qml_file): the window is built and calls recorder.init, which
\* calls get_scripts_from_file(prompts_count, prompts_filename,
\* split_len=prompt_len_soft_max)
main_load ==
    /\ mpc = "load"
    /\ subsystems' = Append(subsystems, "qml")
    /\ gpc' = "load"
    /\ mpc' = "init"
    /\ MainFrame
    /\ UNCHANGED exc
    /\ UNCHANGED <<corpus, arg_n, randomize, split_len, n, scripts, selected,
                   parts>>
    /\ UNCHANGED <<bufVars, sessVars, splitVars>>

\* init has its prompts (or its exception was reported); res = app.exec_()
main_exec ==
    /\ mpc = "init"
    /\ gpc \in {"done", "raised"}
    /\ mpc' = "exec"
    /\ MainFrame
    /\ UNCHANGED <<subsystems, exc>>
    /\ UNCHANGED <<bufVars, sessVars, scriptVars, splitVars>>

\* ------------------------------------------------------------------- Init
\* self.audio = audio.Audio(): an empty queue, and a stream that is already
\* delivering chunks (the stray audio that startRecording's flush discards).
audio_Audio == [buffer_queue |-> <<>>, active |-> TRUE]

\* The Recorder after construction, before any slot ran.
InitRecorder ==
    /\ buffer_queue = audio_Audio.buffer_queue
    /\ active = audio_Audio.active
    /\ pc = "idle"
    /\ caller = "api"
    /\ drop_last = 0
    /\ blocks = <<>>
    /\ size = 0
    /\ ret = <<>>
    /\ data = <<>>
    /\ scriptModel = [s \in Slots |-> <<>>]
    /\ cur = 1
    /\ files = {}
    /\ log = <<>>
    /\ now = 0
    /\ pushed = 0
    /\ callQueue = <<>>
    /\ callPushed = 0
    /\ gets = 0
    /\ lastOp = "none"
    /\ finished = <<>>
    /\ started = FALSE
    /\ preroll = 0
    /\ failure = NoFailure

\* get_scripts_from_file is not running.
NoScriptsCall ==
    /\ corpus = <<>>
    /\ arg_n = None
    /\ randomize = TRUE
    /\ split_len = None
    /\ gpc = "unused"
    /\ n = 0
    /\ scripts = <<>>
    /\ selected = <<>>
    /\ parts = <<>>

\* split_script is not running.
NoSplitCall ==
    /\ ss_pc = "unused"
    /\ ss_script = <<>>
    /\ ss_split_len = 1
    /\ ss_scripts = <<>>
    /\ ss_n = 0
    /\ ss_startpos = 0
    /\ ss_i = 0
    /\ broke = FALSE

\* main has reached app.exec_(): every subsystem is initialized.
MainRunning ==
    /\ mpc = "exec"
    /\ save_dir_isdir = TRUE
    /\ prompts_filename_isfile = TRUE
    /\ subsystems = <<"QGuiApplication", "QQmlApplicationEngine", "Audio",
                      "qml">>
    /\ exc = "none"

Init ==
    /\ InitRecorder
    /\ NoScriptsCall
    /\ NoSplitCall
    /\ MainRunning

\* ------------------------------------------------ the buffer operations alone
NextBuffer ==
    \/ CallbackDirect
    \/ CallReadAudio
    \/ CallFlush
    \/ Returned
    \/ flush_qsize
    \/ flush_empty
    \/ flush_get
    \/ flush_return
    \/ read_audio_init
    \/ read_audio_empty
    \/ read_audio_get
    \/ read_audio_return

SpecBuffer == Init /\ [][NextBuffer]_vars

\* ------------------------------------------- get_scripts_from_file, called
\* All sequences of at most k elements of S.
SeqsUpTo(S, k) == UNION {[1..m -> S] : m \in 0..k}

\* The characters of the prompts files tried: a letter, a blank, the comment
\* mark.
Alphabet == {"a", " ", ";"}
CorpusLines == SeqsUpTo(Alphabet, MaxLineLen)
Corpora == SeqsUpTo(CorpusLines, MaxLines)

\* A prompts file with a comment, an arctic line and a line with a tag:
\* hello world / ; a comment / foo "bar baz" / qux (s5)
ExampleCorpus ==
    << <<"h", "e", "l", "l", "o", " ", "w", "o", "r", "l", "d">>,
       <<";", " ", "a", " ", "c", "o", "m", "m", "e", "n", "t">>,
       <<"f", "o", "o", " ", "\"", "b", "a", "r", " ", "b", "a", "z", "\"">>,
       <<"q", "u", "x", " ", "(", "s", "5", ")">> >>

\* A prompts file with a line as in the TIMIT prompts: qux (sa1)
TimitCorpus == << <<"q", "u", "x", " ", "(", "s", "a", "1", ")">> >>

InitScripts ==
    /\ InitRecorder
    /\ \/ corpus \in Corpora /\ arg_n \in {None} \cup 0..MaxN
       \/ corpus \in {ExampleCorpus, TimitCorpus} /\ arg_n = 4
    /\ randomize \in BOOLEAN
    /\ split_len \in {None} \cup 1..MaxSplit
    /\ gpc = "load"
    /\ n = 0
    /\ scripts = <<>>
    /\ selected = <<>>
    /\ parts = <<>>
    /\ NoSplitCall
    /\ MainRunning

NextScripts ==
    \/ get_scripts_load
    \/ get_scripts_select
    \/ get_scripts_filter
    \/ get_scripts_split
    \/ get_scripts_return

SpecScripts == InitScripts /\ [][NextScripts]_vars

\* ------------------------------------------------------------ main, started
\* The process starts: the arguments are parsed; the save directory and the
\* prompts file exist or not.
InitMain ==
    /\ InitRecorder
    /\ corpus \in Corpora
    /\ arg_n \in 0..MaxN
    /\ randomize = TRUE
    /\ split_len \in {None} \cup 1..MaxSplit
    /\ gpc = "unused"
    /\ n = 0
    /\ scripts = <<>>
    /\ selected = <<>>
    /\ parts = <<>>
    /\ NoSplitCall
    /\ mpc = "QGuiApplication"
    /\ save_dir_isdir \in BOOLEAN
    /\ prompts_filename_isfile \in BOOLEAN
    /\ subsystems = <<>>
    /\ exc = "none"

NextMain ==
    \/ main_QGuiApplication
    \/ main_QQmlApplicationEngine
    \/ Recorder_isdir
    \/ Recorder_isfile
    \/ Recorder_audio
    \/ main_load
    \/ get_scripts_load
    \/ get_scripts_select
    \/ get_scripts_filter
    \/ get_scripts_split
    \/ get_scripts_return
    \/ main_exec

SpecMain == InitMain /\ [][NextMain]_vars

\* ------------------------------------------------- split_script, called
\* The characters of the prompts split: two letters and a blank.
PromptAlphabet == {"a", "b", " "}
Prompts == SeqsUpTo(PromptAlphabet, MaxPromptLen)

\* "one two three four five"
OneToFive == <<"o", "n", "e", " ", "t", "w", "o", " ", "t", "h", "r", "e", "e",
               " ", "f", "o", "u", "r", " ", "f", "i", "v", "e">>

InitSplit ==
    /\ InitRecorder
    /\ NoScriptsCall
    /\ ss_pc = "call"
    /\ ss_script \in Prompts \cup {OneToFive}
    /\ ss_split_len \in 1..MaxSplit \cup {10}
    /\ ss_scripts = <<>>
    /\ ss_n = 0
    /\ ss_startpos = 0
    /\ ss_i = 0
    /\ broke = FALSE
    /\ MainRunning

NextSplit ==
    \/ split_script_call
    \/ split_script_for
    \/ split_script_for_end
    \/ split_script_return

SpecSplit == InitSplit /\ [][NextSplit]_vars

\* ------------------------------------------------------------- the program
Next ==
    \/ Callback
    \/ startRecording
    \/ flush_qsize
    \/ flush_empty
    \/ flush_get
    \/ flush_return
    \/ startRecording_start_stream
    \/ finishRecording
    \/ read_audio_init
    \/ read_audio_empty
    \/ read_audio_get
    \/ read_audio_return
    \/ finishRecording_persist
    \/ deleteFile
    \/ SelectSlot

Spec == Init /\ [][Next]_vars

\* ================================================================== claims
ReadReturned == pc = "returned" /\ lastOp = "read_audio"
FlushReturned == lastOp = "flush" /\ pc \in {"returned", "sr_start_stream"}
\* No chunk was pushed since the running call began.
Quiet == pushed = callPushed
\* All but the last k of a sequence.
AllButLast(q, k) == SubSeq(q, 1, Max(0, Len(q) - k))
InDrainLoop == pc \in {"fl_empty", "fl_get", "fl_return",
                       "ra_empty", "ra_get", "ra_return"}
InFinish == caller = "finishRecording"
            /\ pc \in {"ra_init", "ra_empty", "ra_get", "ra_return", "fr_persist"}
InStartFlush == caller = "startRecording"
                /\ pc \in {"fl_qsize", "fl_empty", "fl_get", "fl_return"}
FilesOfSlot(s) == {f \in files : f.slot = s}

\* C1 (as stated): with no push during the call, read_audio(drop_last=d) on a
\* queue of N chunks returns the concatenation of the first max(0, N - d)
\* chunks.
C1_FirstChunksOfAll ==
    (ReadReturned /\ Quiet) =>
        ret = join(AllButLast(callQueue, drop_last))

\* C1 (amended): with no push during the call, read_audio(drop_last=d) returns
\* the concatenation, in push order, of the first max(0, M - d) of the M
\* non-empty chunks in the queue: zero-length chunks are skipped before the
\* trailing d chunks are dropped.
C1_FirstChunksOfNonEmpty ==
    (ReadReturned /\ Quiet) =>
        ret = join(AllButLast(NonEmpty(callQueue), drop_last))

\* Chunks A..E and drop_last = 2 give ABC.
C1_Witness ==
    /\ ReadReturned /\ Quiet
    /\ drop_last = 2
    /\ callQueue = << <<1>>, <<2>>, <<3>>, <<4>>, <<5>> >>
    /\ ret = <<1, 2, 3>>

\* C2: a read_audio is atomic with respect to pushes: its result is made of
\* the chunks that were in the queue when it started, each once, and of no
\* chunk pushed after it started.
C2_DrainAtomic ==
    ReadReturned =>
        /\ \A i \in 1..Len(ret) : ret[i] <= callPushed
        /\ ret = join(AllButLast(NonEmpty(callQueue), drop_last))

\* C3: flush returns exactly the number of chunks it discarded, which are the
\* chunks in the queue when it started, also when the producer pushes
\* meanwhile.
C3_FlushCount ==
    FlushReturned => (size = gets /\ gets = Len(callQueue))

\* C4: the number of chunks a flush or read_audio call takes from the queue is
\* bounded by the queue's content when the call started, whatever the producer
\* does.
C4_BoundedSteps ==
    InDrainLoop => gets <= Len(callQueue)

\* C5: finishRecording stops the stream before it drains, so no chunk is pushed
\* from the start of its drain to its end; and the stream is started only by
\* startRecording's start_stream, after its flush returned.
C5_StopBeforeDrain ==
    /\ [](InFinish => (~active /\ Quiet))
    /\ [][(active' /\ ~active) =>
            (pc = "sr_start_stream" /\ lastOp = "flush")]_vars

\* A recording's drain has ended with audio, after its stream was stopped.
C5_Witness ==
    /\ InFinish /\ pc = "fr_persist"
    /\ started
    /\ data /= <<>>

\* C6: in every state each prompt slot, so the displayed one too, has at most
\* one audio file written by finishRecording.
C6_OneFilePerSlot ==
    \A s \in Slots : Cardinality(FilesOfSlot(s)) <= 1

\* A slot was recorded twice and holds the second file only.
C6_Witness ==
    /\ Len(finished) = 2
    /\ finished[1].slot = finished[2].slot
    /\ FilesOfSlot(finished[2].slot) =
           {f \in files : f.name = finished[2].name}
    /\ Cardinality(files) = 1

\* C7: the log holds exactly one record per completed finishRecording, in
\* completion order, and every step leaves the earlier log as a prefix.
C7_LogAppendOnly ==
    /\ [](/\ Len(log) = Len(finished)
          /\ \A i \in 1..Len(log) : log[i][1] = finished[i].name)
    /\ [][/\ Len(log') >= Len(log)
          /\ SubSeq(log', 1, Len(log)) = log]_vars

\* Two records are kept though the first recording's file was deleted and the
\* second recording's audio is empty.
C7_Witness ==
    /\ Len(log) = 2
    /\ ~Exists(log[1][1])
    /\ \E f \in files : f.name = log[2][1] /\ f.data = <<>>

\* C8: after write_wav or the log append failed, the drained audio is still
\* held by the program and the slot can be recorded again (its filename is
\* empty or names a file that deleteFile can remove).
C8_FailureKeepsAudioAndSlot ==
    (pc = "idle" /\ failure.kind \in {"write_wav", "open_log"}) =>
        /\ data = failure.drained
        /\ (scriptFilename = <<>> \/ Exists(scriptFilename))

\* C9: a startRecording does not run while a recording is capturing, and every
\* finishRecording that persisted followed a startRecording of its own.
C9_Sequential ==
    /\ InStartFlush => ~started
    /\ \A i \in 1..Len(finished) : finished[i].started

\* The whitespace-separated words of a string, in order.
RECURSIVE Words(_)
Words(s) ==
    LET t == lstrip(s)
        e == search(t, 0)
    IN  IF t = <<>> THEN <<>>
        ELSE IF e = None THEN <<t>>
        ELSE <<Slice(t, 0, e)>> \o Words(Slice(t, e, Len(t)))

\* ' '.join(segments)
RECURSIVE JoinSpaces(_)
JoinSpaces(segs) ==
    IF segs = <<>> THEN <<>>
    ELSE IF Len(segs) = 1 THEN Head(segs)
    ELSE Head(segs) \o <<" ">> \o JoinSpaces(Tail(segs))

\* Number of segments the prompts before the i-th were split into.
RECURSIVE SegmentsBefore(_)
SegmentsBefore(i) ==
    IF i <= 1 THEN 0 ELSE SegmentsBefore(i - 1) + Len(parts[i - 1])

\* The segments of the i-th selected prompt that are in the returned list.
Present(i) ==
    SubSeq(scripts, SegmentsBefore(i) + 1,
           Min(SegmentsBefore(i) + Len(parts[i]), Len(scripts)))

\* C10: when a split length is given, the segments of every selected prompt
\* that are in the returned list, rejoined with single blanks, have the
\* prompt's words: no selected prompt loses segments.
C10_PromptsKeepTheirSegments ==
    (gpc = "done" /\ split_len /= None) =>
        \A i \in 1..Len(selected) :
            Words(JoinSpaces(Present(i))) = Words(selected[i])

SplitDone == ss_pc = "done"

\* C11 (as stated): split_script("one two three four five", 10) returns
\* ["one two", "three four", "five"].
C11_ThreeSegments ==
    (SplitDone /\ ss_script = OneToFive /\ ss_split_len = 10) =>
        ss_scripts = << <<"o", "n", "e", " ", "t", "w", "o">>,
                        <<"t", "h", "r", "e", "e", " ", "f", "o", "u", "r">>,
                        <<"f", "i", "v", "e">> >>

\* C11 (amended): split_script("one two three four five", 10) returns
\* ["one two three", "four five"]: the first whitespace at or after index 10
\* is the one after "three", and none is at or after index 23.
C11_TwoSegments ==
    (SplitDone /\ ss_script = OneToFive /\ ss_split_len = 10) =>
        ss_scripts = << <<"o", "n", "e", " ", "t", "w", "o", " ", "t", "h", "r", "e", "e">>,
                        <<"f", "o", "u", "r", " ", "f", "i", "v", "e">> >>

\* The example prompt was split with split_len 10 in two iterations.
C11_Witness ==
    /\ SplitDone /\ ss_script = OneToFive /\ ss_split_len = 10
    /\ ss_i = 2 /\ broke
    /\ Len(ss_scripts) = 2

\* C12: the segments split_script returns, rejoined with single blanks, have
\* exactly the whitespace-separated words of the prompt, in their order.
C12_WordsKept ==
    SplitDone => Words(JoinSpaces(ss_scripts)) = Words(ss_script)

\* A prompt of three words was split into three segments.
C12_Witness ==
    /\ SplitDone
    /\ Len(Words(ss_script)) = 3
    /\ Len(ss_scripts) = 3
    /\ \E i, j \in 1..3 : ss_scripts[i] /= ss_scripts[j]

\* C13: split_script returns no empty segment unless the prompt is empty.
C13_NoEmptySegment ==
    (SplitDone /\ ss_script /= <<>>) =>
        \A k \in 1..Len(ss_scripts) : ss_scripts[k] /= <<>>

\* C18: the loop of split_script runs at most ceil(len(prompt)/split_len)
\* iterations (i <= ceil(L/s) is i*s < L + s), and a loop that reaches its last
\* permitted iteration ends there by its break, so the last segment runs to
\* the end of the prompt: only for the empty prompt, which has no iteration,
\* does the loop end without a break.
C18_LoopEndsByBreak ==
    /\ ss_pc \in {"for", "return", "done"} =>
          ss_i * ss_split_len < Len(ss_script) + ss_split_len
    /\ ss_pc \in {"return", "done"} =>
          /\ broke \/ ss_script = <<>>
          /\ broke => ss_scripts[Len(ss_scripts)] =
                          strip(Slice(ss_script, ss_startpos, Len(ss_script)))

\* The loop used every permitted iteration, more than one, and ended by break.
C18_Witness ==
    /\ SplitDone
    /\ ss_n >= 2
    /\ ss_i = ss_n
    /\ broke

\* The lines get_scripts_from_file loaded, each after cleanup.
Cleaned == [j \in 1..Len(load(corpus)) |-> filter(load(corpus)[j])]
Selected == gpc \in {"split", "return", "done"}

\* C14 (as stated): for any loaded lines and any n >= 0, a call with
\* randomize=True returns exactly n items, each the cleaned form of a loaded
\* line.
C14_AlwaysExactlyN ==
    (randomize /\ split_len = None /\ gpc \in {"done", "raised"}) =>
        /\ gpc = "done"
        /\ Len(scripts) = n
        /\ \A i \in 1..Len(scripts) :
              \E j \in 1..Len(Cleaned) : scripts[i] = Cleaned[j]

\* C14 (amended): with randomize=True the call raises (random.choice of an
\* empty list) exactly when no line was loaded and n > 0; otherwise it selects
\* exactly n items, each the cleaned form of a loaded line, with a repeat
\* when n exceeds the number of lines, and without a split length it returns
\* those n items.
C14_ExactlyNUnlessEmpty ==
    randomize =>
        /\ (gpc = "raised") => (load(corpus) = <<>> /\ n > 0)
        /\ Selected =>
              /\ ~(load(corpus) = <<>> /\ n > 0)
              /\ Len(selected) = n
              /\ \A i \in 1..n :
                    \E j \in 1..Len(Cleaned) : selected[i] = Cleaned[j]
              /\ n > Len(Cleaned) =>
                    \E i, j \in 1..n : i /= j /\ selected[i] = selected[j]
        /\ (gpc = "done" /\ split_len = None) => scripts = selected

\* Two different lines were drawn in the opposite of their order in the file.
C14_Witness ==
    /\ randomize /\ gpc = "done" /\ split_len = None
    /\ n = 2 /\ Len(Cleaned) = 2
    /\ Cleaned[1] /= Cleaned[2]
    /\ scripts = <<Cleaned[2], Cleaned[1]>>

ExampleCall ==
    gpc = "done" /\ arg_n = 4 /\ ~randomize /\ split_len = None

\* C15 (as stated): the example prompts file, n = 4, randomize=False, no split
\* length: the call returns ['hello world', 'bar baz', 'qux'].
C15_TagS5Removed ==
    (ExampleCall /\ corpus = ExampleCorpus) =>
        scripts = << <<"h", "e", "l", "l", "o", " ", "w", "o", "r", "l", "d">>,
                     <<"b", "a", "r", " ", "b", "a", "z">>,
                     <<"q", "u", "x">> >>

\* C15 (amended): the call returns ['hello world', 'bar baz', 'qux (s5)']: the
\* tag pattern wants one character between the s and the digits, so ' (s5)'
\* stays, while for the line 'qux (sa1)' the call returns ['qux'].
C15_TagS5Kept ==
    /\ (ExampleCall /\ corpus = ExampleCorpus) =>
          scripts = << <<"h", "e", "l", "l", "o", " ", "w", "o", "r", "l", "d">>,
                       <<"b", "a", "r", " ", "b", "a", "z">>,
                       <<"q", "u", "x", " ", "(", "s", "5", ")">> >>
    /\ (ExampleCall /\ corpus = TimitCorpus) =>
          scripts = << <<"q", "u", "x">> >>

\* The example call returned three prompts: the comment line was dropped.
C15_Witness ==
    /\ ExampleCall /\ corpus = ExampleCorpus
    /\ Len(scripts) = 3
    /\ scripts[2] = filter(corpus[3])
    /\ scripts[2] /= corpus[3]

\* C16: the existence checks of the save directory and of the prompts file
\* run, and report a missing path, before the GUI application, the QML engine
\* and the audio subsystem are initialized.
C16_ChecksBeforeSubsystems ==
    (mpc \in {"isdir", "isfile"} \/ exc \in {"save_dir", "prompts_filename"})
        => subsystems = <<>>

\* C19: read_audio keeps no zero-length chunk in blocks, so with no push
\* during the call the chunks dropped from the tail are the last drop_last
\* non-empty chunks of the queue (all of them if there are fewer): a
\* zero-length chunk takes no place in the dropped window.
C19_EmptyChunksNotCounted ==
    /\ \A i \in 1..Len(blocks) : blocks[i] /= <<>>
    /\ (ReadReturned /\ Quiet) =>
          LET nonEmpty == NonEmpty(callQueue)
              kept     == Len(nonEmpty) - Min(drop_last, Len(nonEmpty))
          IN  /\ ret = join(SubSeq(nonEmpty, 1, kept))
              /\ \A i \in (kept + 1)..Len(nonEmpty) :
                    \A j \in 1..Len(ret) : ret[j] /= nonEmpty[i][1]

\* The queue ended with a zero-length chunk and drop_last = 1 dropped the
\* non-empty chunk before it.
C19_Witness ==
    /\ ReadReturned /\ Quiet
    /\ drop_last = 1
    /\ callQueue = << <<1>>, <<2>>, <<>> >>
    /\ ret = <<1>>

\* C17: while a finishRecording that follows a startRecording drains and
\* persists, every chunk it has taken, and so every byte of the audio it
\* persists, was pushed after that startRecording was invoked.
C17_NoPrerollInRecording ==
    (InFinish /\ started) =>
        /\ \A i \in 1..Len(blocks) : blocks[i][1] > preroll
        /\ \A j \in 1..Len(data) : data[j] > preroll

\* Audio is about to be persisted for a recording whose startRecording found
\* a stray chunk in the queue.
C17_Witness ==
    /\ InFinish /\ pc = "fr_persist"
    /\ started
    /\ preroll >= 1
    /\ data /= <<>>

\* Every finishRecording so far completed: each consumed one clock reading
\* and each completed one is in finished. (A deleteFile that fails changes
\* nothing.)
NoPersistFailed == Len(finished) = now

\* C20: when no finishRecording has failed and no slot is running, or a
\* finishRecording is about to delete the previous file, the displayed
\* prompt's scriptFilename is empty or names a file that exists.
C20_FilenameNamesAFile ==
    (NoPersistFailed /\ pc \in {"idle", "fr_persist"}) =>
        (scriptFilename = <<>> \/ Exists(scriptFilename))

\* A re-recording is about to delete the file of the first recording, which
\* exists.
C20_Witness ==
    /\ pc = "fr_persist"
    /\ NoPersistFailed /\ now = 1
    /\ scriptFilename = finished[1].name
    /\ Exists(scriptFilename)

====
